---- MODULE Spec2Model ----
(***************************************************************************)
(* flet-iap: the InAppPurchase control (src/src/flet_iap/iap.py).           *)
(*                                                                         *)
(* The model covers the command dispatcher (initialize, query_products,    *)
(* buy_product, restore_purchases, get_past_purchases, finish_transaction),*)
(* the platform guard, the product_ids attribute, the purchase_updated     *)
(* event pipeline and the two payload decoders (PurchaseEvent and          *)
(* ProductDetails).                                                        *)
(*                                                                         *)
(* Python values are represented as follows.                               *)
(*   Optional[list[str]]  [isNone |-> BOOLEAN, v |-> sequence]             *)
(*   Optional[str]        a string, with NoneStr standing for None         *)
(*   dict                 [keys |-> set of present keys, vals |-> record]; *)
(*                        vals holds a fixed filler for an absent key      *)
(*   float                an integer (0 for 0.0)                           *)
(***************************************************************************)
EXTENDS Integers, Sequences, FiniteSets, TLC

\* ------------------------------------------------------------------ bounds
MaxRequests == 2
MaxNotifs == 2

\* ------------------------------------------------------------ Python values
NoneStr == "<None>"
NoneList == [isNone |-> TRUE, v |-> <<>>]
Some(l) == [isNone |-> FALSE, v |-> l]

\* Python truthiness of an Optional[list[str]] value: None and [] are falsy.
Truthy(x) == (~x.isNone) /\ Len(x.v) > 0

\* dict.get(key, default)
DictGet(d, k, default) == IF k \in d.keys THEN d.vals[k] ELSE default

\* ------------------------------------------------------------------- enums
PurchaseStatus == {"pending", "purchased", "error", "restored", "canceled"}
ProductType == {"consumable", "non_consumable", "subscription"}

\* Enum(value): the member with that value; ValueError when there is none.
EnumOf(members, v) ==
    IF v \in members THEN [raised |-> "", value |-> v]
    ELSE [raised |-> "ValueError", value |-> NoneStr]

\* ------------------------------------------------------------ input domains
NoPage == "<no page>"
Mobile == {"android", "ios"}
Platforms == {"android", "ios", "windows"}
IdLists == {<<>>, <<"a", "b">>, <<"c">>}
OptIdLists == {NoneList} \cup {Some(l) : l \in IdLists}
ProductIdArgs == {"coins"}
TransactionIdArgs == {"t1"}

\* What the bridge hands back to a waiting invoke_method: None, "", the JSON
\* text of a list of purchase records, or text that is not JSON.
BridgeResults ==
    { [kind |-> "none", items |-> <<>>],
      [kind |-> "empty", items |-> <<>>],
      [kind |-> "json", items |-> <<>>],
      [kind |-> "json", items |-> <<"t1">>],
      [kind |-> "malformed", items |-> <<>>] }

\* Purchase payload: the dict encoded in e.data of a purchase_updated event.
PurchaseKeys == {"productId", "status", "transactionId", "errorMessage"}
StatusValues == PurchaseStatus \cup {"refunded"}
PurchaseVals(K, s) ==
    [productId |-> IF "productId" \in K THEN "coins" ELSE "",
     status |-> IF "status" \in K THEN s ELSE "",
     transactionId |-> IF "transactionId" \in K THEN "t1" ELSE "",
     errorMessage |-> IF "errorMessage" \in K THEN "declined" ELSE ""]
PurchaseDicts ==
    { [keys |-> K, vals |-> PurchaseVals(K, s)] :
        K \in SUBSET PurchaseKeys, s \in StatusValues }
EmptyDict == [keys |-> {}, vals |-> PurchaseVals({}, "")]
\* e.data: JSON text of an object, JSON text of something else, or not JSON.
RawPayloads ==
    { [kind |-> "object", dict |-> d] : d \in PurchaseDicts }
    \cup { [kind |-> "array", dict |-> EmptyDict],
           [kind |-> "malformed", dict |-> EmptyDict] }
\* What the store reports for a failed purchase.
StoreFailurePayloads ==
    { [kind |-> "object",
       dict |-> [keys |-> PurchaseKeys, vals |-> PurchaseVals(PurchaseKeys, "error")]] }

\* Product record: one element of a products_ready payload.
ProductKeys == {"id", "title", "description", "price", "rawPrice",
                "currencyCode", "currencySymbol", "type"}
TypeValues == ProductType \cup {"bundle"}
ProductVals(K, t) ==
    [id |-> IF "id" \in K THEN "coins" ELSE "",
     title |-> IF "title" \in K THEN "Coins" ELSE "",
     description |-> IF "description" \in K THEN "100 coins" ELSE "",
     price |-> IF "price" \in K THEN "$1.99" ELSE "",
     rawPrice |-> IF "rawPrice" \in K THEN 2 ELSE 0,
     currencyCode |-> IF "currencyCode" \in K THEN "USD" ELSE "",
     currencySymbol |-> IF "currencySymbol" \in K THEN "$" ELSE "",
     type |-> IF "type" \in K THEN t ELSE ""]
\* The records tried: any of id, price, rawPrice and type present or missing,
\* the four remaining keys all present or all missing.
DisplayKeys == {"title", "description", "currencyCode", "currencySymbol"}
ProductKeySets ==
    { K \cup D : K \in SUBSET (ProductKeys \ DisplayKeys), D \in {{}, DisplayKeys} }
ProductDicts ==
    { [keys |-> K, vals |-> ProductVals(K, t)] :
        K \in ProductKeySets, t \in TypeValues }

\* -------------------------------------------------------------------- state
VARIABLES
    page,          \* self.page: NoPage, or the platform of the page it is on
    productIds,    \* the "productIds" attribute behind self.product_ids
    handler,       \* TRUE iff an on_purchase_updated callback is registered
    requests,      \* the invoke_method calls made so far, in order
    pc,            \* "idle", or "waiting" inside a wait_for_result call
    last,          \* the last command call and how it ended
    notified,      \* purchase_updated notifications received from the bridge
    handled,       \* ... of those, with a handler set and a JSON object payload
    produced,      \* PurchaseEvent objects constructed
    delivered,     \* PurchaseEvent objects passed to the callback
    decoded        \* the last decoder run: its input, outcome and output

vars == <<page, productIds, handler, requests, pc, last,
          notified, handled, produced, delivered, decoded>>

dispatcherVars == <<page, productIds, requests, pc, last>>
eventVars == <<handler, notified, handled, produced, delivered, decoded>>

NoEvent ==
    [product_id |-> "", status |-> "", transaction_id |-> "", error_message |-> ""]
NoProduct == ProductVals({}, "")
NoCall ==
    [op |-> "none", argIds |-> NoneList, argId |-> "", platform |-> NoPage,
     default |-> <<>>, outcome |-> "none", sent |-> 0, responded |-> FALSE,
     result |-> <<>>]
NoDecode ==
    [kind |-> "none", keys |-> {}, vals |-> PurchaseVals({}, ""),
     pvals |-> NoProduct, raised |-> "", event |-> NoEvent, product |-> NoProduct]

\* InAppPurchase.__init__: not on a page, product_ids and on_purchase_updated
\* as passed to the constructor, nothing sent, nothing received.
Init ==
    /\ page = NoPage
    /\ productIds \in OptIdLists
    /\ handler \in BOOLEAN
    /\ requests = <<>>
    /\ pc = "idle"
    /\ last = NoCall
    /\ notified = 0
    /\ handled = 0
    /\ produced = 0
    /\ delivered = 0
    /\ decoded = NoDecode

\* ------------------------------------------------------------- product_ids
\* The getter: _get_attr("productIds", data_type="list", def_value=[]).
product_ids == IF productIds.isNone THEN <<>> ELSE productIds.v

\* The setter: _set_attr("productIds", value).
SetProductIds(value) ==
    /\ pc = "idle"
    /\ productIds' = value
    /\ UNCHANGED <<page, requests, pc, last>>
    /\ UNCHANGED eventVars

\* page.add(iap): the control joins a page of some platform.
Attach(platform) ==
    /\ pc = "idle"
    /\ page = NoPage
    /\ page' = platform
    /\ UNCHANGED <<productIds, requests, pc, last>>
    /\ UNCHANGED eventVars

\* ---------------------------------------------------------- platform guard
CheckAnyPlatform(p) == ""

\* _check_mobile_platform: the exception it raises, "" when it returns.
CheckMobilePlatform(p) ==
    IF p = NoPage THEN "AssertionError"
    ELSE IF p \notin Mobile THEN "Exception"
    ELSE ""

\* ---------------------------------------------------------- the dispatcher
WaitsForAnyPurchase(op) == op \in {"get_past_purchases", "buy_product"}

\* wait_for_result as each call site passes it to invoke_method.
WaitForResult(op) == op = "get_past_purchases"

Request(op, argName, ids, id) ==
    [method |-> op, argName |-> argName, productIds |-> ids, value |-> id,
     wait_for_result |-> WaitForResult(op)]

\* The record of a call: its arguments, the page and the default IDs it saw,
\* how it ended, and sent, the number of requests it added to the log.
Call(op, argIds, argId, default, outcome, sent) ==
    [op |-> op, argIds |-> argIds, argId |-> argId, platform |-> page,
     default |-> default, outcome |-> outcome, sent |-> sent,
     responded |-> FALSE, result |-> <<>>]

\* The call raised before reaching invoke_method.
Raise(op, argIds, argId, default, exc) ==
    /\ UNCHANGED <<page, productIds, requests, pc>>
    /\ last' = Call(op, argIds, argId, default, exc, Len(requests') - Len(requests))
    /\ UNCHANGED eventVars

\* self.invoke_method(...): the request goes to the bridge; the call returns
\* at once, or blocks for the result when wait_for_result is set.
InvokeMethod(op, argIds, argId, default, req) ==
    /\ requests' = Append(requests, req)
    /\ pc' = IF req.wait_for_result THEN "waiting" ELSE "idle"
    /\ last' = Call(op, argIds, argId, default,
                    IF req.wait_for_result THEN "pending" ELSE "returned",
                    Len(requests') - Len(requests))
    /\ UNCHANGED <<page, productIds>>
    /\ UNCHANGED eventVars

CanCall == pc = "idle" /\ Len(requests) < MaxRequests

Initialize ==
    /\ CanCall
    /\ LET g == CheckMobilePlatform(page) IN
       IF g # "" THEN Raise("initialize", NoneList, "", <<>>, g)
       ELSE InvokeMethod("initialize", NoneList, "", <<>>,
                         Request("initialize", "", <<>>, ""))

ResolveIdsIfGiven(arg, default) == IF ~arg.isNone THEN arg.v ELSE default

\* ids = product_ids or self.product_ids
ResolveIds(arg, default) == IF Truthy(arg) THEN arg.v ELSE default

NoIdsNever(ids) == FALSE

\* not ids
NoIds(ids) == Len(ids) = 0

QueryProducts(arg) ==
    /\ CanCall
    /\ LET g == CheckMobilePlatform(page)
           ids == ResolveIds(arg, product_ids)
       IN
       IF g # "" THEN Raise("query_products", arg, "", <<>>, g)
       ELSE IF NoIds(ids)
            THEN Raise("query_products", arg, "", product_ids, "ValueError")
       ELSE InvokeMethod("query_products", arg, "", product_ids,
                         Request("query_products", "productIds", ids, ""))

BuyProduct(product_id) ==
    /\ CanCall
    /\ LET g == CheckMobilePlatform(page) IN
       IF g # "" THEN Raise("buy_product", NoneList, product_id, <<>>, g)
       ELSE InvokeMethod("buy_product", NoneList, product_id, <<>>,
                         Request("buy_product", "productId", <<>>, product_id))

RestorePurchases ==
    /\ CanCall
    /\ LET g == CheckMobilePlatform(page) IN
       IF g # "" THEN Raise("restore_purchases", NoneList, "", <<>>, g)
       ELSE InvokeMethod("restore_purchases", NoneList, "", <<>>,
                         Request("restore_purchases", "", <<>>, ""))

GetPastPurchases ==
    /\ CanCall
    /\ LET g == CheckMobilePlatform(page) IN
       IF g # "" THEN Raise("get_past_purchases", NoneList, "", <<>>, g)
       ELSE InvokeMethod("get_past_purchases", NoneList, "", <<>>,
                         Request("get_past_purchases", "", <<>>, ""))

FinishTransaction(transaction_id) ==
    /\ CanCall
    /\ LET g == CheckMobilePlatform(page) IN
       IF g # "" THEN Raise("finish_transaction", NoneList, transaction_id, <<>>, g)
       ELSE InvokeMethod("finish_transaction", NoneList, transaction_id, <<>>,
                         Request("finish_transaction", "transactionId", <<>>,
                                 transaction_id))

\* return json.loads(result) if result else []
PastPurchasesResult(res) ==
    IF res.kind \in {"none", "empty"} THEN [raised |-> "", value |-> <<>>]
    ELSE IF res.kind = "malformed" THEN [raised |-> "JSONDecodeError", value |-> <<>>]
    ELSE [raised |-> "", value |-> res.items]

\* The bridge answers the waiting call within wait_timeout.
BridgeResponds(res) ==
    /\ pc = "waiting"
    /\ pc' = "idle"
    /\ LET r == IF last.op = "get_past_purchases" THEN PastPurchasesResult(res)
                ELSE [raised |-> "", value |-> <<>>]
       IN last' = [last EXCEPT !.outcome = IF r.raised = "" THEN "returned" ELSE r.raised,
                               !.responded = TRUE,
                               !.result = r.value]
    /\ UNCHANGED <<page, productIds, requests>>
    /\ UNCHANGED eventVars

\* The bridge never answers and wait_timeout elapses: invoke_method's wait
\* ends with the framework's TimeoutError, which get_past_purchases does not
\* catch.
WaitTimeoutOutcome == "TimeoutError"

WaitTimeoutElapses ==
    /\ pc = "waiting"
    /\ pc' = "idle"
    /\ last' = [last EXCEPT !.outcome = WaitTimeoutOutcome]
    /\ UNCHANGED <<page, productIds, requests>>
    /\ UNCHANGED eventVars

\* ------------------------------------------------------------ the decoders
\* json.loads(e.data) followed by the first d.get: a payload that is not JSON
\* raises JSONDecodeError, JSON that is not an object has no get().
JsonLoadsDict(raw) ==
    IF raw.kind = "malformed" THEN [raised |-> "JSONDecodeError", dict |-> EmptyDict]
    ELSE IF raw.kind # "object" THEN [raised |-> "AttributeError", dict |-> EmptyDict]
    ELSE [raised |-> "", dict |-> raw.dict]

PurchaseEventGated(d) ==
    LET status == EnumOf(PurchaseStatus, DictGet(d, "status", "error")) IN
    [raised |-> status.raised,
     event |-> IF status.raised # "" THEN NoEvent
               ELSE [product_id |-> DictGet(d, "productId", ""),
                     status |-> status.value,
                     transaction_id |-> DictGet(d, "transactionId", ""),
                     error_message |->
                         IF status.value \in {"error", "canceled"}
                         THEN DictGet(d, "errorMessage", NoneStr)
                         ELSE NoneStr]]

\* PurchaseEvent.__init__ on the parsed dict d.
PurchaseEventOf(d) ==
    LET status == EnumOf(PurchaseStatus, DictGet(d, "status", "error")) IN
    [raised |-> status.raised,
     event |-> IF status.raised # "" THEN NoEvent
               ELSE [product_id |-> DictGet(d, "productId", ""),
                     status |-> status.value,
                     transaction_id |-> DictGet(d, "transactionId", ""),
                     error_message |-> DictGet(d, "errorMessage", NoneStr)]]

\* PurchaseEvent(e): parse e.data, then fill the fields.
PurchaseEvent(raw) ==
    LET parsed == JsonLoadsDict(raw) IN
    IF parsed.raised # "" THEN [raised |-> parsed.raised, event |-> NoEvent]
    ELSE PurchaseEventOf(parsed.dict)

\* ProductDetails.__init__ on one product record.
ProductDetails(data) ==
    LET type == EnumOf(ProductType, DictGet(data, "type", "consumable")) IN
    [raised |-> type.raised,
     product |-> IF type.raised # "" THEN NoProduct
                 ELSE [id |-> DictGet(data, "id", ""),
                       title |-> DictGet(data, "title", ""),
                       description |-> DictGet(data, "description", ""),
                       price |-> DictGet(data, "price", ""),
                       rawPrice |-> DictGet(data, "rawPrice", 0),
                       currencyCode |-> DictGet(data, "currencyCode", ""),
                       currencySymbol |-> DictGet(data, "currencySymbol", ""),
                       type |-> type.value]]

\* The on_purchase_updated setter.
SetOnPurchaseUpdated(h) ==
    /\ handler' = h
    /\ UNCHANGED <<notified, handled, produced, delivered, decoded>>
    /\ UNCHANGED dispatcherVars

\* The bridge emits purchase_updated with payload raw. The handler wired in
\* __init__ runs the converter (lambda e: PurchaseEvent(e)) only when a
\* callback is set, and passes the event it built to that callback; a
\* converter that raises builds no event and the callback is not called.
PurchaseUpdated(raw) ==
    /\ notified < MaxNotifs
    /\ notified' = notified + 1
    /\ IF ~handler
       THEN UNCHANGED <<handled, produced, delivered, decoded>>
       ELSE LET r == PurchaseEvent(raw) IN
            /\ handled' = IF raw.kind = "object" THEN handled + 1 ELSE handled
            /\ produced' = IF r.raised = "" THEN produced + 1 ELSE produced
            /\ delivered' = IF r.raised = "" THEN delivered + 1 ELSE delivered
            /\ decoded' = [kind |-> IF raw.kind = "object" THEN "purchase" ELSE raw.kind,
                           keys |-> raw.dict.keys, vals |-> raw.dict.vals,
                           pvals |-> NoProduct, raised |-> r.raised,
                           event |-> r.event, product |-> NoProduct]
    /\ UNCHANGED handler
    /\ UNCHANGED dispatcherVars

\* The application decodes one record of a products_ready payload.
DecodeProduct(data) ==
    /\ LET r == ProductDetails(data) IN
       decoded' = [kind |-> "product", keys |-> data.keys,
                   vals |-> PurchaseVals({}, ""), pvals |-> data.vals,
                   raised |-> r.raised, event |-> NoEvent, product |-> r.product]
    /\ UNCHANGED <<handler, notified, handled, produced, delivered>>
    /\ UNCHANGED dispatcherVars

\* ----------------------------------------------------------- specifications
\* The command dispatcher, with the store reporting failures as events.
Next ==
    \/ \E platform \in Platforms : Attach(platform)
    \/ \E value \in OptIdLists : SetProductIds(value)
    \/ Initialize
    \/ \E arg \in OptIdLists : QueryProducts(arg)
    \/ \E product_id \in ProductIdArgs : BuyProduct(product_id)
    \/ RestorePurchases
    \/ GetPastPurchases
    \/ \E transaction_id \in TransactionIdArgs : FinishTransaction(transaction_id)
    \/ \E res \in BridgeResults : BridgeResponds(res)
    \/ WaitTimeoutElapses
    \/ \E raw \in StoreFailurePayloads : PurchaseUpdated(raw)

Spec == Init /\ [][Next]_vars

\* The event channel and the decoders, over every payload shape.
NextDecoder ==
    \/ \E h \in BOOLEAN : SetOnPurchaseUpdated(h)
    \/ \E raw \in RawPayloads : PurchaseUpdated(raw)
    \/ \E data \in ProductDicts : DecodeProduct(data)

SpecDecoder == Init /\ [][NextDecoder]_vars

\* ------------------------------------------------------------------ claims
FireAndForget == {"initialize", "query_products", "buy_product",
                  "restore_purchases", "finish_transaction"}
Commands == FireAndForget \cup {"get_past_purchases"}
LastRequest == requests[Len(requests)]
\* The ID list a query_products call works with: its argument when that is a
\* non-empty list, else the default it read.
LastResolved == IF Truthy(last.argIds) THEN last.argIds.v ELSE last.default

\* C1: a command called while the control is on no page, or on a page whose
\* platform is neither Android nor iOS, ends in an error and adds no request
\* to the bridge log; no request is ever in the log of such a control.
C1_GuardBeforeRequest ==
    /\ (last.op \in Commands /\ last.platform \notin {"android", "ios"})
          => (last.outcome \in {"AssertionError", "Exception"} /\ last.sent = 0)
    /\ (page \notin {"android", "ios"}) => requests = <<>>

C1_Witness ==
    /\ last.op = "finish_transaction"
    /\ last.platform = "windows"
    /\ last.outcome = "Exception"
    /\ requests = <<>>

\* C2: query_products with no argument or an empty list, the guard passing
\* and no default product IDs configured, raises ValueError and adds no
\* request to the bridge log.
C2_EmptyIdsRejected ==
    (/\ last.op = "query_products"
     /\ last.platform \in {"android", "ios"}
     /\ (last.argIds.isNone \/ last.argIds.v = <<>>)
     /\ last.default = <<>>)
        => (last.outcome = "ValueError" /\ last.sent = 0)

C2_Witness ==
    /\ last.op = "query_products"
    /\ last.platform = "android"
    /\ last.argIds = Some(<<>>)
    /\ last.default = <<>>
    /\ last.outcome = "ValueError"

\* C3 as stated: a query_products call that is given an explicit argument and
\* sends a request sends that argument as productIds.
C3_ExplicitArgumentSent ==
    (/\ last.op = "query_products"
     /\ last.sent = 1
     /\ ~last.argIds.isNone)
        => LastRequest.productIds = last.argIds.v

\* C3 as amended: with the guard passing and a non-empty resolved list - the
\* argument when it is a non-empty list, the configured default when the
\* argument is None or empty - query_products returns having added exactly one
\* request, a query_products request whose productIds is the resolved list.
C3_ResolvedIdsSent ==
    (/\ last.op = "query_products"
     /\ last.platform \in {"android", "ios"}
     /\ LastResolved # <<>>)
        => /\ last.outcome = "returned"
           /\ last.sent = 1
           /\ LastRequest.method = "query_products"
           /\ LastRequest.argName = "productIds"
           /\ LastRequest.productIds = LastResolved

C3_Witness ==
    /\ last.op = "query_products"
    /\ last.argIds = NoneList
    /\ last.default = <<"a", "b">>
    /\ last.sent = 1
    /\ LastRequest.productIds = <<"a", "b">>

\* C4: decoding a JSON-object purchase payload that lacks one or more of its
\* four keys raises nothing, gives each missing field its default and carries
\* each present field through.
C4_MissingKeysDecode ==
    (decoded.kind = "purchase" /\ decoded.keys # PurchaseKeys)
        => /\ decoded.raised = ""
           /\ decoded.event.product_id =
                 (IF "productId" \in decoded.keys THEN decoded.vals.productId ELSE "")
           /\ decoded.event.transaction_id =
                 (IF "transactionId" \in decoded.keys THEN decoded.vals.transactionId ELSE "")
           /\ ("status" \notin decoded.keys => decoded.event.status = "error")
           /\ ("errorMessage" \notin decoded.keys => decoded.event.error_message = NoneStr)

\* C5: decoding a purchase payload whose status is a string outside the five
\* PurchaseStatus values raises nothing and gives status error.
C5_UnknownStatusIsError ==
    (/\ decoded.kind = "purchase"
     /\ "status" \in decoded.keys
     /\ decoded.vals.status \notin {"pending", "purchased", "error", "restored", "canceled"})
        => (decoded.raised = "" /\ decoded.event.status = "error")

\* C6: a get_past_purchases call that passed the guard and whose wait ended
\* without a response from the bridge returned, and returned the empty list.
C6_TimeoutReturnsEmpty ==
    (/\ last.op = "get_past_purchases"
     /\ last.sent = 1
     /\ pc = "idle"
     /\ ~last.responded)
        => (last.outcome = "returned" /\ last.result = <<>>)

\* C7: decoding a product record raises nothing; a missing price, rawPrice or
\* type decodes to "", 0.0 and consumable, and so does an unrecognized type.
C7_ProductDecodeTotal ==
    decoded.kind = "product"
        => /\ decoded.raised = ""
           /\ ("price" \notin decoded.keys => decoded.product.price = "")
           /\ ("rawPrice" \notin decoded.keys => decoded.product.rawPrice = 0)
           /\ (("type" \notin decoded.keys \/ decoded.pvals.type \notin ProductType)
                  => decoded.product.type = "consumable")

\* C8 as stated: a decoded PurchaseEvent has an error_message only when its
\* status is error or canceled.
C8_MessageOnlyOnFailure ==
    (decoded.kind = "purchase" /\ decoded.raised = "")
        => (decoded.event.error_message # NoneStr
               => decoded.event.status \in {"error", "canceled"})

\* C8 as amended: whatever its status, a decoded PurchaseEvent has as
\* error_message the payload's errorMessage unchanged, and None exactly when
\* the payload has no errorMessage.
C8_MessagePassedThrough ==
    (decoded.kind = "purchase" /\ decoded.raised = "")
        => decoded.event.error_message =
              (IF "errorMessage" \in decoded.keys THEN decoded.vals.errorMessage
               ELSE NoneStr)

C8_Witness ==
    /\ decoded.kind = "purchase"
    /\ decoded.raised = ""
    /\ decoded.event.status = "purchased"
    /\ decoded.event.error_message = "declined"

\* C9: every purchase_updated notification carrying a JSON object, received
\* while a callback is registered, produces one PurchaseEvent, and that event
\* is passed to the callback.
C9_OneEventPerNotification ==
    produced = handled /\ delivered = handled

\* C10: only get_past_purchases requests wait for a result and only a
\* get_past_purchases call is ever waiting; each of the five other commands,
\* once past its guard and its argument check, has returned having added
\* exactly one request, and otherwise ended in the guard's or the check's
\* error, whatever the store has reported on the event channel since.
C10_OnlyPastPurchasesWaits ==
    /\ \A i \in 1..Len(requests) :
          requests[i].wait_for_result <=> requests[i].method = "get_past_purchases"
    /\ pc = "waiting" => last.op = "get_past_purchases"
    /\ last.op \in FireAndForget =>
          /\ last.outcome \in {"returned", "AssertionError", "Exception", "ValueError"}
          /\ last.outcome = "returned" <=> last.sent = 1
          /\ (last.platform \in {"android", "ios"}
              /\ (last.op = "query_products" => LastResolved # <<>>))
                 => last.outcome = "returned"

C10_Witness ==
    /\ last.op = "buy_product"
    /\ last.outcome = "returned"
    /\ last.sent = 1
    /\ notified > 0
    /\ decoded.kind = "purchase"
    /\ decoded.event.status = "error"

====
